---- MODULE Spec2Model ----
(***************************************************************************)
(* Model of the kv-store storage engine (kv-store-lib/src/lib.rs): the     *)
(* Store operations insert, delete and get over an evmap read/write handle *)
(* pair guarded by a parking_lot Mutex, and the reclamation loop spawned   *)
(* by Store::init, which drains the pending operations into the TTL        *)
(* priority queue, evicts expired keys and refreshes the map.              *)
(***************************************************************************)
EXTENDS Integers, Sequences, FiniteSets, TLC

\* ------------------------------------------------------------------ bounds
\* The clock (Utc::now(), in milliseconds) takes the values 0..MaxTime.
MaxTime == 2
\* At most MaxOps Store::insert / Store::delete calls queue a mutation.
MaxOps == 3

\* ------------------------------------------------------------------ inputs
\* KeyType = String (lib.rs:15).
Keys == {"a", "b"}
\* serde_json::Value arguments of insert, each given by its kind and its
\* literal text: json!("value"), the value the tests insert (lib.rs:131).
JsonValues == {[kind |-> "String", text |-> "value"]}
\* Option<i64> ttl arguments of insert: None is {}, Some(n) is {n}.
TtlArgs == {{}, {0}, {1}}
\* Concurrent HTTP handler contexts calling Store::insert / Store::delete.
Callers == {"h1", "h2"}

VARIABLES
    r_map,      \* the map the read handles see (state as of the last refresh)
    oplog,      \* WriteHandle operations queued since the last refresh
    ttl_queue,  \* DoublePriorityQueue<KeyType, DateTime<Utc>>: key -> expiry
    mutex,      \* parking_lot Mutex around the WriteHandle: TRUE when held
    pc,         \* position of each caller
    lpc,        \* position of the reclamation loop task
    clock,      \* Utc::now()
    ev,         \* the last Store::insert / Store::delete call and its result
    last,       \* per key, the latest successful mutation (history)
    w_map,      \* every mutation made on the WriteHandle so far, applied in order (history)
    snap,       \* w_map as it was at the last refresh (history)
    track,      \* per key, the ttl = None insert made while no live value
    tins,       \* per key, the successful inserts with a ttl
    persist,    \* per key, the stored values with ttl = None not deleted since
    delst,      \* per key, progress of the latest successful delete
    nops,       \* number of mutations queued by insert / delete calls so far
    audit       \* whether ev, last, track, tins and persist are kept

vars == <<r_map, oplog, ttl_queue, mutex, pc, lpc, clock, ev, last, w_map,
          snap, track, tins, persist, delst, nops, audit>>

ghost == <<last, w_map, snap, track, tins, persist, delst, audit>>

\* ------------------------------------------------------- values and options
None == {}
Some(x) == {x}
Unwrap(o) == CHOOSE x \in o : TRUE

Range(s) == {s[i] : i \in DOMAIN s}

\* Value::to_string (lib.rs:52): the JSON text of the value; a JSON string is
\* written with its quotes.
to_string(value) ==
    IF value.kind = "String" THEN "\"" \o value.text \o "\"" ELSE value.text

\* json!(v.data.clone()) (lib.rs:70): the stored text wrapped as a JSON string.
json(data) == [kind |-> "String", text |-> data]

\* StoredValue { data, ttl } (lib.rs:19-22).
StoredValue(data, ttl) == [data |-> data, ttl |-> ttl]

\* ------------------------------------------------------------ evmap handle
\* evmap::Operation::Add(k, v) and ::Empty(k), as queued by WriteHandle::insert
\* (lib.rs:49) and WriteHandle::empty (lib.rs:65, 106).
Add(k, v) == [op |-> "Add", k |-> k, v |-> v]
Empty(k) == [op |-> "Empty", k |-> k]

\* One operation applied to a map: Add pushes the value into the key's value
\* bag (creating it), Empty removes the key with its whole bag.
ApplyOp(m, o) ==
    IF o.op = "Add"
    THEN IF o.k \in DOMAIN m
         THEN [m EXCEPT ![o.k] = Append(@, o.v)]
         ELSE [x \in DOMAIN m \cup {o.k} |-> IF x = o.k THEN <<o.v>> ELSE m[x]]
    ELSE [x \in DOMAIN m \ {o.k} |-> m[x]]

RECURSIVE ApplyAll(_, _)
ApplyAll(m, ops) ==
    IF ops = <<>> THEN m ELSE ApplyAll(ApplyOp(m, Head(ops)), Tail(ops))

EmptyMap == [x \in {} |-> <<>>]

\* WriteHandle::pending (lib.rs:89): the operations not yet applied by a
\* refresh.
pending == oplog

\* WriteHandle derefs to its ReadHandle: contains_key on the write handle
\* (lib.rs:46, 62) looks the key up in the refreshed map.
contains_key_staged(k) == k \in DOMAIN ApplyAll(r_map, oplog)
contains_key(k) == k \in DOMAIN r_map

\* ReadHandle::get_one (lib.rs:70): one value of the key's bag, which one is
\* not specified; the results Store::get can return for k.
get(k) ==
    IF k \in DOMAIN r_map
    THEN {Some(json(sv.data)) : sv \in Range(r_map[k])}
    ELSE {None}

\* The writer-side (staged) map: the refreshed map with the queued operations
\* applied, which is what the next refresh publishes.
WriterMap == ApplyAll(r_map, oplog)

\* ---------------------------------------------------------------- ttl queue
\* DoublePriorityQueue::push (lib.rs:93): inserts the key or updates its
\* priority.
push(q, k, p) == [x \in DOMAIN q \cup {k} |-> IF x = k THEN p ELSE q[x]]

\* DoublePriorityQueue::remove (lib.rs:98).
remove(q, k) == [x \in DOMAIN q \ {k} |-> q[x]]

\* DoublePriorityQueue::peek_min (lib.rs:104, 108): the keys one of which is
\* returned, those with the least expiry; empty when the queue is empty.
peek_min(q) == {k \in DOMAIN q : \A x \in DOMAIN q : q[k] <= q[x]}

\* One pending operation handled by the drain (lib.rs:90-102).
DrainOp_keep_removed(q, o) ==
    IF o.op = "Add" /\ o.v.ttl # None THEN push(q, o.k, Unwrap(o.v.ttl)) ELSE q
DrainOp(q, o) ==
    IF o.op = "Add"
    THEN IF o.v.ttl # None THEN push(q, o.k, Unwrap(o.v.ttl)) ELSE q
    ELSE IF o.k \in DOMAIN q THEN remove(q, o.k) ELSE q

\* The for loop over write_handle.pending() (lib.rs:89-103).
DrainAll_first_only(q, ops) == IF ops = <<>> THEN q ELSE DrainOp(q, Head(ops))
RECURSIVE DrainAll(_, _)
DrainAll(q, ops) ==
    IF ops = <<>> THEN q ELSE DrainAll(DrainOp(q, Head(ops)), Tail(ops))

\* ------------------------------------------------------------------ history
\* History variables record what has happened; no operation of the program
\* reads them.  w_map, snap and delst are always kept; ev, last, track, tins
\* and persist are kept only when audit is set (specification SpecAudit).

\* A key holds a live value when the latest successful mutation of it is an
\* insert (no successful delete and no eviction since).
Live(k) == last[k] = "insert"

NoCall == [op |-> "none", k |-> "", live |-> FALSE, res |-> "none", staged |-> FALSE]
NoTrack == [st |-> "none", data |-> ""]

heavy == <<last, track, tins, persist>>

\* The record of a Store::insert / Store::delete call that returned res,
\* having changed the operation log from `before` to `after`.
Returned(op, k, res, before, after) ==
    ev' = IF audit
          THEN [op |-> op, k |-> k, live |-> Live(k), res |-> res,
                staged |-> after # before]
          ELSE ev

\* History kept when insert(k, ...) returns Ok and queues the stored value sv.
NoteInsert(k, sv) ==
    /\ w_map' = ApplyOp(w_map, Add(k, sv))
    /\ delst' = [delst EXCEPT ![k] = "none"]
    /\ UNCHANGED snap
    /\ IF audit
       THEN /\ last' = [last EXCEPT ![k] = "insert"]
            /\ track' = IF sv.ttl = None /\ ~Live(k)
                        THEN [track EXCEPT ![k] = [st |-> "staged", data |-> sv.data]]
                        ELSE track
            /\ tins' = IF sv.ttl # None
                       THEN [tins EXCEPT ![k] = @ \cup {[sv |-> sv, st |-> "new"]}]
                       ELSE tins
            /\ persist' = IF sv.ttl = None
                          THEN [persist EXCEPT ![k] = @ \cup {sv}]
                          ELSE persist
       ELSE UNCHANGED heavy

\* History kept when delete(k) returns Ok.
NoteDelete(k) ==
    /\ w_map' = ApplyOp(w_map, Empty(k))
    /\ delst' = [delst EXCEPT ![k] = "staged"]
    /\ UNCHANGED snap
    /\ IF audit
       THEN /\ last' = [last EXCEPT ![k] = "delete"]
            /\ tins' = [tins EXCEPT ![k] = {}]
            /\ persist' = [persist EXCEPT ![k] = {}]
            /\ track' = IF track[k].st = "staged"
                        THEN [track EXCEPT ![k] = NoTrack]
                        ELSE track
       ELSE UNCHANGED heavy

\* History kept when the sweep evicts k.
NoteEvict(k) ==
    /\ w_map' = ApplyOp(w_map, Empty(k))
    /\ UNCHANGED <<delst, snap>>
    /\ IF audit
       THEN /\ last' = [last EXCEPT ![k] = "evict"]
            /\ UNCHANGED <<track, tins, persist>>
       ELSE UNCHANGED heavy

\* History kept when a reclamation cycle starts: the ttl inserts whose expiry
\* the clock has passed are due in this cycle.
NoteCycleStart ==
    /\ UNCHANGED <<w_map, delst, snap>>
    /\ IF audit
       THEN /\ tins' = [k \in Keys |->
                         {IF e.st = "new" /\ clock > Unwrap(e.sv.ttl)
                          THEN [e EXCEPT !.st = "due"] ELSE e : e \in tins[k]}]
            /\ UNCHANGED <<last, track, persist>>
       ELSE UNCHANGED heavy

\* History kept when a reclamation cycle publishes.
NotePublish ==
    /\ snap' = w_map
    /\ delst' = [k \in Keys |-> IF delst[k] = "staged" THEN "published" ELSE delst[k]]
    /\ UNCHANGED w_map
    /\ IF audit
       THEN /\ tins' = [k \in Keys |->
                         {IF e.st = "due" THEN [e EXCEPT !.st = "checked"] ELSE e :
                            e \in tins[k]}]
            /\ track' = [k \in Keys |->
                          IF delst[k] = "staged" THEN NoTrack
                          ELSE IF track[k].st = "staged"
                               THEN [track[k] EXCEPT !.st = "published"]
                               ELSE track[k]]
            /\ UNCHANGED <<last, persist>>
       ELSE UNCHANGED heavy

\* ------------------------------------------------------------------- mutex
\* Mutex::lock (lib.rs:44, 61, 88): blocks until the mutex is free, then
\* holds it.
lock_no_wait == mutex' = TRUE
lock == ~mutex /\ mutex' = TRUE

\* The MutexGuard dropped at the end of its scope (lib.rs:58, 67, 116).
unlock_guard_kept == mutex' = mutex
unlock == mutex' = FALSE

\* ------------------------------------------------------------------- Store
\* A handler calls Store::insert or Store::delete and reaches the lock() at
\* the top of it (main.rs:60, 71, 78).
Call(c) ==
    /\ pc[c] = "idle"
    /\ nops + Cardinality({d \in Callers : pc[d] # "idle"}) < MaxOps
    /\ pc' = [pc EXCEPT ![c] = "lock"]
    /\ UNCHANGED <<r_map, oplog, ttl_queue, mutex, lpc, clock, ev, nops>>
    /\ UNCHANGED ghost

\* writer_m.lock() returns in Store::insert (lib.rs:44) or Store::delete
\* (lib.rs:61).
Acquire(c) ==
    /\ pc[c] = "lock"
    /\ lock
    /\ pc' = [pc EXCEPT ![c] = "locked"]
    /\ UNCHANGED <<r_map, oplog, ttl_queue, lpc, clock, ev, nops>>
    /\ UNCHANGED ghost

\* WriteHandle::insert as called by Store::insert (lib.rs:49-55): queues Add.
writer_insert(k, sv) == Append(oplog, Add(k, sv))

\* WriteHandle::empty as called by Store::delete (lib.rs:65): queues Empty.
writer_empty_unqueued(k) == oplog
writer_empty(k) == Append(oplog, Empty(k))

\* Store::insert under the lock (lib.rs:45-58), the guard dropped on return.
insert(c, k, value, ttl) ==
    /\ pc[c] = "locked"
    /\ LET current_ttl == IF ttl = None THEN None ELSE Some(clock + Unwrap(ttl))
           sv == StoredValue(to_string(value), current_ttl)
       IN  IF contains_key(k)
           THEN /\ oplog' = oplog
                /\ Returned("insert", k, "AlreadyPresent", oplog, oplog')
                /\ UNCHANGED <<ghost, nops>>
           ELSE /\ oplog' = writer_insert(k, sv)
                /\ Returned("insert", k, "Ok", oplog, oplog')
                /\ NoteInsert(k, sv)
                /\ nops' = nops + 1
                /\ UNCHANGED audit
    /\ unlock
    /\ pc' = [pc EXCEPT ![c] = "idle"]
    /\ UNCHANGED <<r_map, ttl_queue, lpc, clock>>

\* Store::delete under the lock (lib.rs:62-67), the guard dropped on return.
delete(c, k) ==
    /\ pc[c] = "locked"
    /\ IF ~contains_key(k)
       THEN /\ oplog' = oplog
            /\ Returned("delete", k, "NotFound", oplog, oplog')
            /\ UNCHANGED <<ghost, nops>>
       ELSE /\ oplog' = writer_empty(k)
            /\ Returned("delete", k, "Ok", oplog, oplog')
            /\ NoteDelete(k)
            /\ nops' = nops + 1
            /\ UNCHANGED audit
    /\ unlock
    /\ pc' = [pc EXCEPT ![c] = "idle"]
    /\ UNCHANGED <<r_map, ttl_queue, lpc, clock>>

\* Store::get (lib.rs:69-71) on a read handle: takes no lock, returns one of
\* get(k) and changes nothing.
Get_locking(k) ==
    /\ ~mutex
    /\ \E res \in get(k) : TRUE
    /\ UNCHANGED vars
Get(k) ==
    /\ \E res \in get(k) : TRUE
    /\ UNCHANGED vars

\* -------------------------------------------------------- reclamation loop
\* The start of a cycle: internal_writer.lock() (lib.rs:88) returns and the
\* for loop over write_handle.pending() (lib.rs:89-103) runs.
Drain ==
    /\ lpc = "lock"
    /\ lock
    /\ ttl_queue' = DrainAll(ttl_queue, pending)
    /\ lpc' = "sweep"
    /\ NoteCycleStart
    /\ UNCHANGED <<r_map, oplog, pc, clock, ev, nops, audit>>

\* The while condition of the sweep (lib.rs:105): the entry is expired.
expired_at_or_before(ttl) == clock >= ttl
expired(ttl) == clock > ttl

\* One evaluation of the sweep's while condition and, when it holds, one run
\* of its body (lib.rs:104-109); otherwise the loop goes on to refresh.
Sweep ==
    /\ lpc = "sweep"
    /\ IF peek_min(ttl_queue) # {}
       THEN \E k \in peek_min(ttl_queue) :
              IF expired(ttl_queue[k])
              THEN /\ oplog' = Append(oplog, Empty(k))
                   /\ ttl_queue' = remove(ttl_queue, k)
                   /\ lpc' = "sweep"
                   /\ NoteEvict(k)
                   /\ UNCHANGED audit
              ELSE /\ lpc' = "refresh"
                   /\ UNCHANGED <<oplog, ttl_queue>>
                   /\ UNCHANGED ghost
       ELSE /\ lpc' = "refresh"
            /\ UNCHANGED <<oplog, ttl_queue>>
            /\ UNCHANGED ghost
    /\ UNCHANGED <<r_map, mutex, pc, clock, ev, nops>>

\* What WriteHandle::refresh (lib.rs:110) makes visible to the readers: every
\* queued operation applied, in order.
refresh_all_but_last == ApplyAll(r_map, SubSeq(oplog, 1, Len(oplog) - 1))
refresh == ApplyAll(r_map, oplog)

\* The position of the loop after write_handle.refresh() in a build with
\* cfg(test) (lib.rs:111-115): break when the index is empty.
after_refresh_always_break == "done"
after_refresh == IF DOMAIN ttl_queue = {} THEN "done" ELSE "lock"

\* write_handle.refresh() and the end of the cycle, where the guard is
\* dropped (lib.rs:110-116).
Refresh_test_break ==
    /\ lpc = "refresh"
    /\ r_map' = refresh
    /\ oplog' = <<>>
    /\ unlock
    /\ lpc' = after_refresh
    /\ NotePublish
    /\ UNCHANGED audit
    /\ UNCHANGED <<ttl_queue, pc, clock, ev, nops>>
Refresh ==
    /\ lpc = "refresh"
    /\ r_map' = refresh
    /\ oplog' = <<>>
    /\ unlock
    /\ lpc' = "lock"
    /\ NotePublish
    /\ UNCHANGED audit
    /\ UNCHANGED <<ttl_queue, pc, clock, ev, nops>>

\* The wall clock advances.
Tick ==
    /\ clock < MaxTime
    /\ clock' = clock + 1
    /\ UNCHANGED <<r_map, oplog, ttl_queue, mutex, pc, lpc, ev, nops>>
    /\ UNCHANGED ghost

\* ------------------------------------------------------------ specification
\* The state Store::init returns (lib.rs:78-85): an empty map refreshed once,
\* an empty ttl queue, the mutex free, the loop task about to take the lock.
Start ==
    /\ r_map = EmptyMap
    /\ oplog = <<>>
    /\ ttl_queue = [x \in {} |-> 0]
    /\ mutex = FALSE
    /\ pc = [c \in Callers |-> "idle"]
    /\ lpc = "lock"
    /\ clock = 0
    /\ ev = NoCall
    /\ last = [k \in Keys |-> "none"]
    /\ w_map = EmptyMap
    /\ snap = EmptyMap
    /\ track = [k \in Keys |-> NoTrack]
    /\ tins = [k \in Keys |-> {}]
    /\ persist = [k \in Keys |-> {}]
    /\ delst = [k \in Keys |-> "none"]
    /\ nops = 0

Init == Start /\ audit = FALSE

InitAudit == Start /\ audit = TRUE

Next ==
    \/ \E c \in Callers : Call(c)
    \/ \E c \in Callers : Acquire(c)
    \/ \E c \in Callers, k \in Keys, value \in JsonValues, ttl \in TtlArgs :
         insert(c, k, value, ttl)
    \/ \E c \in Callers, k \in Keys : delete(c, k)
    \/ \E k \in Keys : Get(k)
    \/ Drain
    \/ Sweep
    \/ Refresh
    \/ Tick

Spec == Init /\ [][Next]_vars

\* The same program with the full history kept.
SpecAudit == InitAudit /\ [][Next]_vars

\* The body of Store::insert or Store::delete run by caller c.
Body(c) ==
    \/ \E k \in Keys, value \in JsonValues, ttl \in TtlArgs : insert(c, k, value, ttl)
    \/ \E k \in Keys : delete(c, k)

\* A fair scheduler: every thread's step that stays enabled is eventually
\* taken.  A thread blocked in lock() is enabled only while the mutex is free.
Scheduling ==
    /\ \A c \in Callers : WF_vars(Acquire(c)) /\ WF_vars(Body(c))
    /\ WF_vars(Drain) /\ WF_vars(Sweep) /\ WF_vars(Refresh)

\* The program under a fair scheduler.
SpecFair == Init /\ [][Next]_vars /\ Scheduling

\* ------------------------------------------------------- the test build
\* write_handle.refresh() and the end of the cycle in the test build
\* (lib.rs:110-116): the guard is dropped on both ways out.
RefreshTest ==
    /\ lpc = "refresh"
    /\ r_map' = refresh
    /\ oplog' = <<>>
    /\ unlock
    /\ lpc' = after_refresh
    /\ NotePublish
    /\ UNCHANGED audit
    /\ UNCHANGED <<ttl_queue, pc, clock, ev, nops>>

NextTest ==
    \/ \E c \in Callers : Call(c)
    \/ \E c \in Callers : Acquire(c)
    \/ \E c \in Callers, k \in Keys, value \in JsonValues, ttl \in TtlArgs :
         insert(c, k, value, ttl)
    \/ \E c \in Callers, k \in Keys : delete(c, k)
    \/ \E k \in Keys : Get(k)
    \/ Drain
    \/ Sweep
    \/ RefreshTest
    \/ Tick

SchedulingTest ==
    /\ \A c \in Callers : WF_vars(Acquire(c)) /\ WF_vars(Body(c))
    /\ WF_vars(Drain) /\ WF_vars(Sweep) /\ WF_vars(RefreshTest)

\* The test build under a fair scheduler.
SpecTest == Init /\ [][NextTest]_vars /\ SchedulingTest

\* ------------------------------------------------------------------ claims

\* C1 (Double-insert rejection): an insert(k, v2, ttl) called while k holds a
\* live value (the latest successful mutation of k is an insert, published or
\* not, and k was not evicted since) returns AlreadyPresent and queues
\* nothing.
C1_DoubleInsertRejected ==
    (ev.op = "insert" /\ ev.live) => (ev.res = "AlreadyPresent" /\ ~ev.staged)

\* C2 (Delete-of-absent rejection): a delete(k) called while k holds no live
\* value (never inserted, or deleted or evicted last) returns NotFound and
\* queues no removal.
C2_DeleteOfAbsentRejected ==
    (ev.op = "delete" /\ ~ev.live) => (ev.res = "NotFound" /\ ~ev.staged)

\* C3 (No spurious rejection): an insert(k, ...) called while k holds no live
\* value returns Ok, and a delete(k) called while k holds a live value
\* returns Ok and queues the removal, whether or not the earlier mutation of
\* k has been published.
C3_NoSpuriousRejection ==
    /\ (ev.op = "insert" /\ ~ev.live) => ev.res = "Ok"
    /\ (ev.op = "delete" /\ ev.live) => (ev.res = "Ok" /\ ev.staged)

\* C4 (Insert-then-get): once insert(k, v, None), made while k held no live
\* value, has returned Ok and a reclamation cycle has published after it,
\* get(k) returns the stored payload of v, until a successful delete(k) is
\* published.  Stated in its weakest reading: the payload is among the
\* results get(k) can return.
C4_InsertThenGet ==
    \A k \in Keys :
        track[k].st = "published" => Some(json(track[k].data)) \in get(k)

\* C5 (TTL expiry): for a successful insert(k, v, Some(T)) made at t0, after
\* every complete reclamation cycle that started with the clock past t0 + T
\* (and with no delete(k) since), the readers no longer see the stored value v
\* under k.
C5_TtlExpiry ==
    \A k \in Keys : \A e \in tins[k] :
        e.st = "checked" => (k \notin DOMAIN r_map \/ e.sv \notin Range(r_map[k]))

\* C6 (No-TTL persistence): a value stored by a successful insert(k, v, None)
\* stays in the writer-side map until a successful delete(k): the expiry
\* sweep never removes it.
C6_NoTtlPersistence ==
    \A k \in Keys : \A sv \in persist[k] :
        k \in DOMAIN WriterMap /\ sv \in Range(WriterMap[k])

\* C7 (Insert-then-delete-then-get): after a successful delete(k) (which a
\* successful insert(k) precedes), once a reclamation cycle has published
\* after the delete and no later insert(k) has succeeded, get(k) returns
\* absent.
C7_DeleteThenGetAbsent ==
    \A k \in Keys : delst[k] = "published" => get(k) = {None}

\* A delete of k has been published and no insert of k has succeeded since,
\* while the other key is visible to the readers.
C7_Witness ==
    \E k \in Keys : delst[k] = "published" /\ DOMAIN r_map = Keys \ {k}

\* C8 (Publish-only visibility): the reader-visible map is the map as of the
\* last publish, which is every mutation made on the write handle up to that
\* publish (the sweep's evictions included) applied in order; mutations made
\* since are queued and not visible, and the queued operations applied to the
\* reader-visible map give the writer-side state.
C8_PublishOnlyVisibility ==
    /\ r_map = snap
    /\ ApplyAll(r_map, oplog) = w_map

\* The readers see a published key while a later insert and a later removal
\* are queued and not yet visible.
C8_Witness ==
    /\ r_map # EmptyMap
    /\ \E i, j \in DOMAIN oplog : oplog[i].op = "Add" /\ oplog[j].op = "Empty"
    /\ r_map # w_map

\* The holders of the write access: callers inside insert / delete, and the
\* reclamation loop from its lock() to the end of the cycle.
Holders ==
    {c \in Callers : pc[c] = "locked"} \cup (IF lpc # "lock" THEN {"loop"} ELSE {})

\* C9 (Mutual exclusion): at most one of the insert calls, delete calls and
\* the reclamation cycle holds the write access, and while a cycle holds it
\* (from its drain to its publish) no caller enters insert or delete and no
\* insert or delete queues a mutation.
C9_MutualExclusion ==
    [][/\ Cardinality(Holders') <= 1
       /\ mutex' = (Holders' # {})
       /\ lpc # "lock" =>
            /\ nops' = nops
            /\ \A c \in Callers : pc'[c] # "locked"
            /\ oplog' # oplog => (lpc = "sweep" /\ Len(oplog') = Len(oplog) + 1
                                   /\ oplog'[Len(oplog')].op = "Empty")
                                 \/ (lpc = "refresh" /\ oplog' = <<>>)]_vars

\* A caller holds the write access while the other caller and the loop are
\* both blocked in lock().
C9_Witness ==
    \E c, d \in Callers : pc[c] = "locked" /\ pc[d] = "lock" /\ lpc = "lock"

\* C10 (Key uniqueness): on the reader-visible map and on the writer-side
\* map, every key has at most one stored value.
C10_KeyUniqueness ==
    /\ \A k \in DOMAIN r_map : Len(r_map[k]) <= 1
    /\ \A k \in DOMAIN WriterMap : Len(WriterMap[k]) <= 1

\* A key is indexed when the ttl queue holds an expiry for it.
Indexed(k) == k \in DOMAIN ttl_queue

\* A key carries a ttl in map m when one of its stored values has one.
HasTtl(m, k) == k \in DOMAIN m /\ \E sv \in Range(m[k]) : sv.ttl # None

\* C11 (Index/map consistency): at the end of every reclamation cycle, and
\* until the next one starts, a key is in the ttl queue if and only if the
\* published map holds it with a value that carries a ttl; keys stored
\* without ttl, deleted keys and evicted keys are not in the queue.
C11_IndexMapConsistency ==
    lpc = "lock" => \A k \in Keys : Indexed(k) <=> HasTtl(r_map, k)

\* Between two cycles one key is indexed with its ttl value published, the
\* other is published without ttl and not indexed.
C11_Witness ==
    /\ lpc = "lock"
    /\ \E k \in Keys :
         /\ Indexed(k) /\ HasTtl(r_map, k)
         /\ \E j \in Keys \ {k} : j \in DOMAIN r_map /\ ~Indexed(j)

NoStarvation ==
    /\ \A c \in Callers : (pc[c] = "lock") ~> (pc[c] = "idle")
    /\ (oplog # <<>>) ~> (oplog = <<>>)

FairMutex ==
    /\ \A c \in Callers : SF_vars(Acquire(c))
    /\ SF_vars(Drain)

PendingExpiries ==
    {ttl_queue[k] : k \in DOMAIN ttl_queue} \cup
    {Unwrap(oplog[i].v.ttl) :
        i \in {j \in 1..Len(oplog) : oplog[j].op = "Add" /\ oplog[j].v.ttl # None}}

ClockPassed == \A t \in PendingExpiries : clock > t

\* C14 (Test-configuration termination): in the test build the loop stops
\* only at the end of a cycle, with the publish, and only when the index is
\* empty; at that step everything staged is published (the queue of
\* operations is empty and readers see the writer's map) and no reader-visible
\* value carries a TTL.  When the mutex is fair to the loop and the clock
\* eventually is past every expiry instant inserted, the loop terminates.
C14_TestTermination ==
    /\ [][lpc # "done" /\ lpc' = "done" =>
            /\ lpc = "refresh" /\ DOMAIN ttl_queue = {}
            /\ r_map' = WriterMap /\ oplog' = <<>> /\ ~mutex'
            /\ \A k \in Keys : ~HasTtl(r_map', k)]_vars
    /\ [][lpc = "done" => lpc' = "done"]_vars
    /\ (SF_vars(Drain) /\ <>[]ClockPassed) => <>(lpc = "done")

\* The loop has terminated after a run in which a key was inserted,
\* published, and removed again by the time of the last publish.
C14_Witness ==
    /\ lpc = "done"
    /\ oplog = <<>>
    /\ nops >= 1
    /\ clock >= 1
    /\ r_map = EmptyMap

\* The step at which the sweep of a cycle stops, and a step of its body.
SweepStops == lpc = "sweep" /\ lpc' = "refresh"
SweepEvicts == lpc = "sweep" /\ ttl_queue' # ttl_queue

\* Every eviction removes one minimal entry from the index and queues one
\* removal of its key from the map.
EvictsOnce ==
    \E k \in peek_min(ttl_queue) :
       /\ ttl_queue' = remove(ttl_queue, k)
       /\ oplog' = Append(oplog, Empty(k))

IndexOps(ops, k) ==
    {i \in 1..Len(ops) : ops[i].k = k /\ (ops[i].op = "Empty" \/ ops[i].v.ttl # None)}

Latest(S) == CHOOSE i \in S : \A j \in S : j <= i

\* The index after a batch has been processed in order: for every key the
\* latest operation on it decides, and a key without one keeps its entry.
InOrder(q, ops) ==
    LET kept == {k \in DOMAIN q : IndexOps(ops, k) = {}}
        set  == {k \in Keys : /\ IndexOps(ops, k) # {}
                              /\ ops[Latest(IndexOps(ops, k))].op = "Add"}
    IN  [k \in kept \cup set |->
           IF k \in set THEN Unwrap(ops[Latest(IndexOps(ops, k))].v.ttl) ELSE q[k]]

\* C16 (Drain order): the drain of a cycle processes the whole queue of
\* staged operations in the order the calls applied them, before the sweep.
\* Between two cycles the queue only grows at its end, by the calls; while
\* the loop has the write access the queue changes only by the sweep's own
\* removals and by the publish, which empties it: no staged operation is
\* skipped and none is still queued at the drain of a later cycle.
C16_DrainOrder ==
    /\ [][lpc = "lock" /\ lpc' # "lock" =>
            /\ lpc' = "sweep"
            /\ ttl_queue' = InOrder(ttl_queue, oplog)
            /\ oplog' = oplog]_vars
    /\ [][lpc = "lock" /\ lpc' = "lock" /\ oplog' # oplog =>
            \E c \in Callers :
               /\ pc[c] = "locked" /\ pc'[c] = "idle"
               /\ Len(oplog') = Len(oplog) + 1
               /\ SubSeq(oplog', 1, Len(oplog)) = oplog]_vars
    /\ [][lpc # "lock" /\ oplog' # oplog =>
            \/ /\ lpc = "sweep" /\ lpc' = "sweep"
               /\ Len(oplog') = Len(oplog) + 1
               /\ SubSeq(oplog', 1, Len(oplog)) = oplog
               /\ oplog'[Len(oplog')].op = "Empty"
            \/ lpc = "refresh" /\ lpc' = "lock" /\ oplog' = <<>>]_vars
    /\ [][lpc = "lock" /\ ttl_queue' # ttl_queue => lpc' = "sweep"]_vars

\* A drain has processed a batch in which two adds of the same key carry
\* different expiry instants: the later one decides the index entry.
C16_Witness ==
    /\ lpc = "sweep"
    /\ \E i, j \in 1..Len(oplog) :
         /\ i < j
         /\ oplog[i].op = "Add" /\ oplog[j].op = "Add"
         /\ oplog[i].k = oplog[j].k
         /\ oplog[i].v.ttl # None /\ oplog[j].v.ttl # None
         /\ oplog[i].v.ttl # oplog[j].v.ttl
         /\ oplog[j].k \in DOMAIN ttl_queue
         /\ ttl_queue[oplog[j].k] = Unwrap(oplog[j].v.ttl)

\* The loop is at one of the three positions of its cycle, and its next step
\* can be taken: the drain whenever the mutex is free, a step of the sweep
\* and the publish always.
LoopCanStep ==
    /\ lpc \in {"lock", "sweep", "refresh"}
    /\ lpc = "lock" => (ENABLED Drain <=> ~mutex)
    /\ lpc = "sweep" => ENABLED Sweep
    /\ lpc = "refresh" => ENABLED Refresh

\* C17 (Tolerant loop): in the production build the loop never terminates or
\* aborts: in every reachable state it is inside its cycle and its next step
\* is possible, and every cycle that has begun runs through drain, sweep and
\* publish to the release of the write access.
C17_TolerantLoop ==
    /\ []LoopCanStep
    /\ (lpc # "lock") ~> (lpc = "lock" /\ ~mutex /\ oplog = <<>>)

\* The drain has just processed the removal of a key that was not in the
\* index (its published values carry no TTL), and the cycle goes on.
C17_Witness ==
    /\ lpc = "sweep"
    /\ \E i \in 1..Len(oplog) :
         /\ oplog[i].op = "Empty"
         /\ oplog[i].k \in DOMAIN r_map
         /\ ~HasTtl(r_map, oplog[i].k)

\* A Store::insert or Store::delete call returns.
CallReturns == \E c \in Callers : pc[c] = "locked" /\ pc'[c] = "idle"

\* C18 (Presence check reads the published snapshot): an insert returns
\* AlreadyPresent exactly when its key is in the reader-visible map at the
\* call and otherwise queues its add; a delete returns NotFound exactly when
\* its key is absent from the reader-visible map and otherwise queues its
\* removal.  The operations queued since the last publish play no part.
C18_PresenceFromSnapshot ==
    [][CallReturns =>
         /\ ev'.op \in {"insert", "delete"}
         /\ ev'.res \in {"Ok", "AlreadyPresent", "NotFound"}
         /\ ev'.op = "insert" =>
              /\ ev'.res = "AlreadyPresent" <=> ev'.k \in DOMAIN r_map
              /\ ev'.res = "Ok" <=> ev'.k \notin DOMAIN r_map
              /\ ev'.res = "Ok" =>
                   /\ Len(oplog') = Len(oplog) + 1
                   /\ oplog'[Len(oplog')].op = "Add"
                   /\ oplog'[Len(oplog')].k = ev'.k
         /\ ev'.op = "delete" =>
              /\ ev'.res = "NotFound" <=> ev'.k \notin DOMAIN r_map
              /\ ev'.res = "Ok" <=> ev'.k \in DOMAIN r_map
              /\ ev'.res = "Ok" => oplog' = Append(oplog, Empty(ev'.k))
         /\ ev'.res # "Ok" => oplog' = oplog
         /\ r_map' = r_map]_vars

\* A call has just been accepted for a key for which the same operation was
\* already queued since the last publish: a second insert of an unpublished
\* key, or a second delete of a published one.
C18_Witness ==
    /\ ev.res = "Ok"
    /\ \E i, j \in 1..Len(oplog) :
         /\ i < j /\ j = Len(oplog)
         /\ oplog[i].k = ev.k /\ oplog[j].k = ev.k
         /\ oplog[i].op = oplog[j].op

\* C19 (No early eviction): whenever the sweep evicts key k at clock time t,
\* every value stored under k at that moment carries a TTL whose expiry
\* instant is strictly before t.
C19_NoEarlyEviction ==
    [][SweepEvicts =>
         \A k \in DOMAIN ttl_queue \ DOMAIN ttl_queue' :
            k \in DOMAIN WriterMap =>
               \A sv \in Range(WriterMap[k]) :
                  sv.ttl # None /\ Unwrap(sv.ttl) < clock]_vars

\* C20 (Expired-on-arrival is never visible): a value inserted with a TTL
\* whose expiry instant is already past when the sweep of the first cycle
\* after the insert reads the clock is evicted by that cycle: at the end of
\* the sweep it is not in the map that the cycle publishes, so no get
\* returns it.
C20_ExpiredOnArrivalInvisible ==
    [][SweepStops =>
         \A i \in 1..Len(oplog) :
            (/\ oplog[i].op = "Add"
             /\ oplog[i].v.ttl # None
             /\ clock > Unwrap(oplog[i].v.ttl))
            => ~(/\ oplog[i].k \in DOMAIN WriterMap
                 /\ oplog[i].v \in Range(WriterMap[oplog[i].k]))]_vars

====
